---- MODULE Spec2Model ----
(***************************************************************************)
(* A model of the Telegram downloader bot of src/main.py: the user table   *)
(* (SubscriptionManager.update_user_info), the subscription gate           *)
(* (SubscriptionManager.check_subscription) and the handlers of            *)
(* TelegramDownloaderBot.                                                  *)
(*                                                                         *)
(* Handlers are coroutines, one per update (webhook creates a task for     *)
(* each).  An action is the code a handler runs between two suspension     *)
(* points, which asyncio runs without interleaving; the suspension points  *)
(* kept are get_chat_member, the status message before download_content    *)
(* and send_document.  Consecutive awaits with no access to shared state   *)
(* between them are one suspension point.  download_content has no await:  *)
(* it holds the event loop from FetchStart to FetchReturn.                 *)
(*                                                                         *)
(* What get_chat_member answers, whether download_content and the message  *)
(* calls inside the try block of process_download succeed, and whether a   *)
(* storage step of update_user_info raises are inputs of the actions.      *)
(*                                                                         *)
(* The variable `last` records what the latest step did (the check it      *)
(* completed, the query it invoked, the message it sent, the URL it        *)
(* fetched); every action writes it anew, so a predicate on `last` is a    *)
(* postcondition of every step.                                            *)
(*                                                                         *)
(* update_user_info, ConfigManager and detect_platform are also run on     *)
(* their own, each under a specification of its calls (SpecUpsert,         *)
(* SpecConfig, SpecDetect).                                                *)
(***************************************************************************)
EXTENDS Integers, Sequences, FiniteSets, TLC

VARIABLES
    channel_username,  \* TelegramDownloaderBot.channel_username (a string, as a sequence of characters)
    users,             \* table users: a set of rows
    downloads,         \* table downloads: a sequence of rows
    task,              \* the handler coroutines in flight, by slot
    last,              \* what the latest step did: gate result, query, message, fetch
    last_call,         \* the last update_user_info call of the upsert harness
    config,            \* ConfigManager.config: the settings in memory
    config_file,       \* the file config.json
    last_set,          \* the last ConfigManager call of the settings harness
    detected           \* the last detect_platform call of the platform harness

vars ==
    <<channel_username, users, downloads, task, last, last_call, config,
      config_file, last_set, detected>>

----------------------------------------------------------------------------
(* Bounds *)

MaxUser == 2        \* user ids are 1..MaxUser
MaxTask == 2        \* handler coroutines in flight at once

UserIds == 1..MaxUser
Tasks == 1..MaxTask

NULL == "NULL"    \* SQL NULL
NoFault == "none" \* every storage step succeeds

\* Time is not modelled: a DATETIME column holds NULL or a time stamp, and
\* datetime.now() and CURRENT_TIMESTAMP are the time stamp.
Now == "now"

----------------------------------------------------------------------------
(* Environment: os.getenv *)

\* ADMIN_IDS parsed into a list of ints: user 1 is the administrator.
admin_ids == {1}

\* Values of the environment variable CHANNEL_USERNAME ('' when unset).
ChannelEnvs == { <<>>, <<"@">>, <<"@", "c">> }

RECURSIVE Replace(_, _)
\* str.replace(ch, ''): s without any occurrence of ch.
Replace(s, ch) ==
    IF s = <<>> THEN <<>>
    ELSE IF Head(s) = ch THEN Replace(Tail(s), ch)
         ELSE <<Head(s)>> \o Replace(Tail(s), ch)

\* What telegram.User carries for user u.
Profile(u) ==
    [username |-> ToString(u), first_name |-> "first", last_name |-> "last",
     language_code |-> "ar"]

----------------------------------------------------------------------------
(* ConfigManager *)

\* A setting's value in memory: a Python str or bool.
Str(v) == [type |-> "str", v |-> v]
Bool(v) == [type |-> "bool", v |-> v]

\* json.dump of a value: its JSON text, in pieces.
json_dumps(value) ==
    IF value.type = "bool"
    THEN IF value.v = "True" THEN <<"true">> ELSE <<"false">>
    ELSE <<"\"", value.v, "\"">>

\* json.load of a value's JSON text.
json_loads(tok) ==
    IF tok = <<"true">> THEN Bool("True")
    ELSE IF tok = <<"false">> THEN Bool("False")
    ELSE Str(tok[2])

\* Two of the settings of default_config.
default_config == [bot_mode |-> Str("bot"), topic_mode |-> Bool("False")]

\* The setting names the calls use (footer is not among the defaults) and the
\* values they set.
ConfigKeys == {"bot_mode", "topic_mode", "footer"}

ConfigValues == {Str("true"), Bool("True")}

\* dict.update: the entries of b over those of a.
DictUpdate(a, b) ==
    [k \in DOMAIN a \cup DOMAIN b |-> IF k \in DOMAIN b THEN b[k] ELSE a[k]]

NoFile == [state |-> "absent", content |-> <<>>]

\* What json.load reads from a readable file.
Loaded(file) == [k \in DOMAIN file.content |-> json_loads(file.content[k])]

\* _load_config: the defaults, under what the file holds if it exists and
\* parses.
load_config(file) ==
    IF file.state = "json" THEN DictUpdate(default_config, Loaded(file))
    ELSE default_config

\* How the rewrite goes: open(config_file, 'w') raises and the file is as it
\* was, or the file is opened (which empties it) and json.dump or the closing
\* of the file raises, leaving text that does not parse.
SaveFaults == {"none", "open", "write"}

\* The steps of _save_config inside its try block.
SaveInsideTry == {"open", "write"}

\* A bug: the file is patched, not rewritten: what it stores stays.
save_config_keep_stored(cfg, file, fault) ==
    IF fault = "open" THEN file
    ELSE IF fault = "write" THEN [state |-> "broken", content |-> <<>>]
    ELSE [state |-> "json",
          content |-> DictUpdate([k \in DOMAIN cfg |-> json_dumps(cfg[k])],
                                 file.content)]

\* _save_config: the file after the call.
save_config(cfg, file, fault) ==
    IF fault = "open" THEN file
    ELSE IF fault = "write" THEN [state |-> "broken", content |-> <<>>]
    ELSE [state |-> "json",
          content |-> [k \in DOMAIN cfg |-> json_dumps(cfg[k])]]

\* ConfigManager.get(key, default)
get(cfg, key, default) == IF key \in DOMAIN cfg THEN cfg[key] ELSE default

\* self.config[key] = value
SetItem(cfg, key, value) ==
    [k \in DOMAIN cfg \cup {key} |-> IF k = key THEN value ELSE cfg[k]]

\* The settings harness records its last call.  None yet.
NoSet ==
    [op |-> "none", key |-> "none", value |-> Str("none"), fault |-> NoFault,
     raised |-> FALSE]

----------------------------------------------------------------------------
(* Table users *)

\* The columns of users; first_seen, which SQLite stamps at the INSERT and no
\* statement of the program reads or writes, is left out.
Columns ==
    {"user_id", "username", "first_name", "last_name", "language_code",
     "is_subscribed", "subscription_checked_at", "last_activity",
     "total_downloads", "is_banned", "is_admin", "chat_mode"}

\* INSERT INTO users (user_id, is_admin): the other columns take their defaults.
NewRow(user_id, is_admin) ==
    [user_id |-> user_id, username |-> NULL, first_name |-> NULL,
     last_name |-> NULL, language_code |-> NULL, is_subscribed |-> FALSE,
     subscription_checked_at |-> NULL, last_activity |-> Now,
     total_downloads |-> 0, is_banned |-> FALSE, is_admin |-> is_admin,
     chat_mode |-> "normal"]

HasRow(tbl, user_id) == \E r \in tbl : r.user_id = user_id

RowsOf(tbl, user_id) == {r \in tbl : r.user_id = user_id}

RowOf(tbl, user_id) == CHOOSE r \in tbl : r.user_id = user_id

\* A bug: every sender passes for an administrator.
is_user_admin_anyone(user_id) == user_id \in UserIds

\* Membership in the static allow-list.
is_user_admin(user_id) == user_id \in admin_ids

\* A bug: the row is replaced (INSERT OR REPLACE), its unnamed columns reset.
SqlReplace(tbl, user_id, kwargs) ==
    {IF r.user_id = user_id
        THEN [c \in Columns |->
                 IF c \in DOMAIN kwargs THEN kwargs[c]
                 ELSE NewRow(user_id, r.is_admin)[c]]
        ELSE r : r \in tbl}

\* UPDATE users SET k = v, ... WHERE user_id = ?
SqlUpdate(tbl, user_id, kwargs) ==
    {IF r.user_id = user_id
        THEN [c \in Columns |-> IF c \in DOMAIN kwargs THEN kwargs[c] ELSE r[c]]
        ELSE r : r \in tbl}

\* The storage step of update_user_info that raises, if any.
DbFaults == {"none", "connect", "select", "insert", "update", "commit"}

\* The storage faults the handlers are run with: none, one that hits an unseen
\* id only and one that hits every call.
HandlerFaults == {"none", "insert", "commit"}

\* Does the storage step `fault` run in this call?  The INSERT runs for an
\* unseen id only, the UPDATE when at least one field is named.
FaultHits(tbl, user_id, kwargs, fault) ==
    \/ fault \in {"connect", "select", "commit"}
    \/ fault = "insert" /\ ~HasRow(tbl, user_id)
    \/ fault = "update" /\ DOMAIN kwargs # {}

\* A bug: the INSERT runs without the SELECT's test.
InsertAlways(tbl, user_id) ==
    tbl \cup {NewRow(user_id, user_id \in admin_ids)}

InsertIfAbsent(tbl, user_id) ==
    IF HasRow(tbl, user_id) THEN tbl
    ELSE tbl \cup {NewRow(user_id, user_id \in admin_ids)}

ApplyFields(tbl, user_id, kwargs) ==
    IF DOMAIN kwargs # {} THEN SqlUpdate(tbl, user_id, kwargs) ELSE tbl

\* A bug: the connection commits each statement (autocommit), so the row
\* inserted before a failing UPDATE stays.
update_user_info_autocommit(tbl, user_id, kwargs, fault) ==
    IF fault = "update" /\ DOMAIN kwargs # {} THEN InsertIfAbsent(tbl, user_id)
    ELSE IF FaultHits(tbl, user_id, kwargs, fault) THEN tbl
    ELSE ApplyFields(InsertIfAbsent(tbl, user_id), user_id, kwargs)

\* The storage steps inside the try block of update_user_info, whose
\* exceptions the except clause logs: all of them.
InsideTry == {"connect", "select", "insert", "update", "commit"}

\* Does the call raise to its caller?
UpdateRaises(tbl, user_id, kwargs, fault) ==
    FaultHits(tbl, user_id, kwargs, fault) /\ fault \notin InsideTry

\* update_user_info(user_id, **kwargs): the table after the call.  A storage
\* step that raises leaves the transaction uncommitted: the table is as before.
update_user_info(tbl, user_id, kwargs, fault) ==
    IF FaultHits(tbl, user_id, kwargs, fault) THEN tbl
    ELSE ApplyFields(InsertIfAbsent(tbl, user_id), user_id, kwargs)

----------------------------------------------------------------------------
(* SubscriptionManager.check_subscription *)

\* member.status values of the chat platform, and "error" for a query that raises.
Statuses == {"creator", "administrator", "member", "restricted", "left", "kicked"}

QueryOutcomes == Statuses \cup {"error"}

\* A bug: a restricted user counts as subscribed.
IsMemberStatusOrRestricted(status) ==
    status \in {"member", "administrator", "creator", "restricted"}

\* member.status in ['member', 'administrator', 'creator']
IsMemberStatus(status) == status \in {"member", "administrator", "creator"}

\* A bug: the allow-list is not consulted.
GatePathNoBypass(user_id) ==
    IF channel_username # <<>> THEN "query" ELSE "open"

\* A bug: the channel is queried even when none is configured.
GatePathAlwaysQuery(user_id) ==
    IF user_id \in admin_ids THEN "admin" ELSE "query"

\* The code up to the first suspension: "admin" and "open" return True at once,
\* "query" awaits get_chat_member.
GatePath(user_id) ==
    IF user_id \in admin_ids THEN "admin"
    ELSE IF channel_username # <<>> THEN "query"
    ELSE "open"

\* A bug: a user the table has as subscribed passes whatever the answer.
GateReturnTrustsCache(tbl, user_id, status, fault) ==
    LET cached == HasRow(tbl, user_id) /\ RowOf(tbl, user_id).is_subscribed IN
    IF status = "error"
    THEN [users |-> tbl, result |-> cached]
    ELSE [users |-> update_user_info(tbl, user_id,
                        [is_subscribed |-> IsMemberStatus(status),
                         subscription_checked_at |-> Now], fault),
          result |-> IsMemberStatus(status) \/ cached]

\* A bug: a query that raises lets the user through (the gate fails open).
GateReturnFailsOpen(tbl, user_id, status, fault) ==
    IF status = "error"
    THEN [users |-> tbl, result |-> TRUE]
    ELSE [users |-> update_user_info(tbl, user_id,
                        [is_subscribed |-> IsMemberStatus(status),
                         subscription_checked_at |-> Now], fault),
          result |-> IsMemberStatus(status)]

\* The code after get_chat_member returned `status` (or raised, "error"):
\* the table and the value returned.
GateReturn(tbl, user_id, status, fault) ==
    IF status = "error"
    THEN [users |-> tbl, result |-> FALSE]
    ELSE [users |-> update_user_info(tbl, user_id,
                        [is_subscribed |-> IsMemberStatus(status),
                         subscription_checked_at |-> Now], fault),
          result |-> IsMemberStatus(status)]

\* Does this call of the gate continuation log a storage error?
GateFaultHits(tbl, user_id, status, fault) ==
    /\ status # "error"
    /\ FaultHits(tbl, user_id, [is_subscribed |-> TRUE], fault)

----------------------------------------------------------------------------
(* AdvancedDownloader *)

\* Strings whose characters matter are sequences of chunks of characters,
\* cut wherever a part of a URL or a domain of supported_domains begins or
\* ends: <<"netfli", "x", ".", "com">> is the string netflix.com.

\* supported_domains, in the order of the dict.
supported_domains ==
    << [domain |-> <<"youtube", ".", "com">>, platform |-> "YouTube"],
       [domain |-> <<"youtu", ".", "be">>, platform |-> "YouTube"],
       [domain |-> <<"instagram", ".", "com">>, platform |-> "Instagram"],
       [domain |-> <<"tiktok", ".", "com">>, platform |-> "TikTok"],
       [domain |-> <<"twitter", ".", "com">>, platform |-> "Twitter/X"],
       [domain |-> <<"x", ".", "com">>, platform |-> "Twitter/X"],
       [domain |-> <<"facebook", ".", "com">>, platform |-> "Facebook"],
       [domain |-> <<"fb", ".", "watch">>, platform |-> "Facebook"],
       [domain |-> <<"threads", ".", "net">>, platform |-> "Threads"],
       [domain |-> <<"t", ".", "me">>, platform |-> "Telegram"] >>

\* Host names, alone and one under another.
Sites ==
    { <<"youtu", ".", "be">>, <<"YOUTUBE", ".", "COM">>,
      <<"tiktok", ".", "com">>, <<"x", ".", "com">>,
      <<"netfli", "x", ".", "com">>, <<"example", ".", "org">> }

Hosts == Sites \cup {a \o <<".">> \o b : a \in Sites, b \in Sites}

\* The user information before the host, if any, and the path after it.
UserInfos == { <<>>, <<"youtube", ".", "com", "@">> }

Paths == { <<"/", "abc123">>, <<"/", "youtu", ".", "be">> }

\* A URL urlparse rejects (ValueError: an unclosed bracket in the host).
BadUrl == <<"https", "://", "[", "bad", "/">>

\* The URLs detect_platform is called with.
Urls ==
    {<<"https", "://">> \o ui \o h \o path :
        ui \in UserInfos, h \in Hosts, path \in Paths} \cup {BadUrl}

\* str.lower(), chunk by chunk.
LowerChunk(c) ==
    CASE c = "YOUTUBE" -> "youtube"
      [] c = "COM" -> "com"
      [] OTHER -> c

lower(str) == [i \in 1..Len(str) |-> LowerChunk(str[i])]

\* sub in str
Contains(str, sub) ==
    \E i \in 0..(Len(str) - Len(sub)) : SubSeq(str, i + 1, i + Len(sub)) = sub

\* Does urlparse(url) raise?
UrlParseRaises(url) ==
    /\ \E i \in 1..Len(url) : url[i] = "["
    /\ \A i \in 1..Len(url) : url[i] # "]"

\* Where the network location of url ends: before the first "/", "?" or "#"
\* after "://", or at the end of the URL.
NetlocEnd(url) ==
    LET stops == {i \in 3..Len(url) : url[i] \in {"/", "?", "#"}} IN
    IF stops = {} THEN Len(url)
    ELSE (CHOOSE i \in stops : \A j \in stops : i <= j) - 1

\* urlparse(url).netloc: user information, host and port.
netloc(url) ==
    IF Len(url) >= 2 /\ url[2] = "://" THEN SubSeq(url, 3, NetlocEnd(url))
    ELSE <<>>

RECURSIVE FirstMatch(_, _)
\* The for loop of detect_platform from entry i on.
FirstMatch(domain, i) ==
    IF i > Len(supported_domains) THEN "Unknown"
    ELSE IF Contains(domain, supported_domains[i].domain)
         THEN supported_domains[i].platform
         ELSE FirstMatch(domain, i + 1)

detect_platform(url) ==
    IF UrlParseRaises(url) THEN "Unknown"
    ELSE FirstMatch(lower(netloc(url)), 1)

UrlA == "https://youtu.be/abc123"
UrlB == "https://example.org/x"

IsUrl(tok) == tok \in {UrlA, UrlB}

\* Message texts, as sequences of whitespace-separated tokens.
Texts == { <<"hello">>, <<"check", UrlA, "thanks">>, <<UrlB, UrlA>> }

\* A bug: the URLs come out last first.
extract_urls_reversed(text) ==
    LET urls == SelectSeq(text, IsUrl) IN
    [i \in 1..Len(urls) |-> urls[Len(urls) + 1 - i]]

\* re.findall(url_pattern, text): the URL tokens, in order.
extract_urls_from_text(text) == SelectSeq(text, IsUrl)

----------------------------------------------------------------------------
(* Handlers *)

\* callback_data of the buttons a chat may carry.
CallbackData == {"check_subscription", "other"}

\* The inline buttons of the message a step leaves in the chat: start_command
\* sends the subscription prompt with reply_markup (open the channel, re-check
\* the subscription); handle_callback's edit_message_text calls pass no
\* reply_markup, which leaves the edited message without inline keyboard; no
\* other message of these handlers carries inline buttons.
InlineKeyboard(view) ==
    IF view = "prompt" THEN {"open_channel", "check_subscription"} ELSE {}

\* The platform harness records its last call.  None yet.
NoDetect == [url |-> <<>>, platform |-> "none"]

IdleTask == [pc |-> "idle", user |-> 0, handler |-> "none", text |-> <<>>]

\* The record of a step: the handler it belongs to and the function that ran,
\* the check_subscription call it completed (path, status, result), whether it
\* invoked get_chat_member, the message it sent or edited (view), the URL it
\* handed to download_content, whether update_user_info logged an error, the
\* message text it classified (set by the step that routes a text), what
\* download_content returned (success, failure) and whether a call inside the
\* try block of process_download raised.
NoEvent ==
    [handler |-> "none", via |-> "none", user |-> 0, path |-> "none",
     status |-> "none", result |-> FALSE, invoked |-> FALSE, view |-> "none",
     fetch |-> "none", db_failed |-> FALSE, text |-> <<>>, fetched |-> "none",
     raised |-> FALSE]

Event(handler, via, u) ==
    [NoEvent EXCEPT !.handler = handler, !.via = via, !.user = u]

\* ev, with a check_subscription call that returned at once (path admin or open).
Passed(ev, path) == [ev EXCEPT !.path = path, !.result = TRUE]

\* ev, with a check_subscription call completed by get_chat_member's answer.
Answered(ev, status, result) ==
    [ev EXCEPT !.path = "query", !.status = status, !.result = result]

\* A bug: download_content runs off the event loop (in an executor), so the
\* other coroutines go on while it runs.
LoopFreeAlways == TRUE

\* download_content holds the event loop: no other coroutine runs meanwhile.
LoopFree == \A q \in Tasks : task[q].pc # "fetching"

\* A new handler takes the first free slot (the slots are interchangeable).
Free(p) ==
    /\ task[p].pc = "idle"
    /\ \A q \in Tasks : q < p => task[q].pc # "idle"

\* The keyword arguments start_command passes to update_user_info.
StartFields(u) ==
    [username |-> Profile(u).username, first_name |-> Profile(u).first_name,
     last_name |-> Profile(u).last_name,
     language_code |-> Profile(u).language_code, last_activity |-> Now]

\* The keyword arguments process_download passes to update_user_info.
DownloadFields == [total_downloads |-> 1, last_activity |-> Now]

\* The harness records its last update_user_info call: the arguments, whether
\* a storage fault was injected and at which step, whether the id had a row,
\* whether the call logged an error, whether it raised.  None yet.
NoCall ==
    [user_id |-> 0, kwargs |-> <<>>, faulted |-> FALSE, existed |-> FALSE,
     failed |-> FALSE, fault |-> NoFault, raised |-> FALSE]

Init ==
    /\ channel_username \in {Replace(e, "@") : e \in ChannelEnvs}
    /\ users = {}
    /\ downloads = <<>>
    /\ task = [p \in Tasks |-> IdleTask]
    /\ last = NoEvent
    /\ last_call = NoCall
    /\ config_file = NoFile
    /\ config = load_config(config_file)
    /\ last_set = NoSet
    /\ detected = NoDetect

\* The body of start_command up to its first suspension or its end, run for
\* handler h on table tbl (h is "message" when handle_message calls it).
StartBody(p, u, h, tbl, ev) ==
    \E fault \in HandlerFaults :
        LET hits == FaultHits(tbl, u, StartFields(u), fault)
            ev2 == [ev EXCEPT !.via = "start_command",
                              !.db_failed = @ \/ hits]
        IN
        /\ fault = NoFault \/ hits
        /\ users' = update_user_info(tbl, u, StartFields(u), fault)
        /\ IF GatePath(u) = "query"
           THEN /\ last' = [ev2 EXCEPT !.invoked = TRUE]
                /\ task' = [task EXCEPT ![p] =
                       [pc |-> "sc_query", user |-> u, handler |-> h,
                        text |-> <<>>]]
           ELSE /\ last' = [Passed(ev2, GatePath(u)) EXCEPT !.view = "main"]
                /\ task' = [task EXCEPT ![p] = IdleTask]

\* /start arrives: start_command up to its first suspension.
StartCommand(p, u) ==
    /\ Free(p)
    /\ LoopFree
    /\ StartBody(p, u, "start", users, Event("start", "start_command", u))
    /\ UNCHANGED <<channel_username, downloads, last_call,
                 config, config_file, last_set, detected>>

\* start_command after get_chat_member returned: the prompt or the main interface.
StartQueryReturn(p) ==
    /\ task[p].pc = "sc_query"
    /\ LoopFree
    /\ \E status \in QueryOutcomes, fault \in HandlerFaults :
        LET u == task[p].user
            hits == GateFaultHits(users, u, status, fault)
            g == GateReturn(users, u, status, fault)
            ev == Answered(Event(task[p].handler, "start_command", u), status,
                           g.result)
        IN
        /\ fault = NoFault \/ hits
        /\ users' = g.users
        /\ last' = [ev EXCEPT !.view = IF g.result THEN "main" ELSE "prompt",
                              !.db_failed = hits]
    /\ task' = [task EXCEPT ![p] = IdleTask]
    /\ UNCHANGED <<channel_username, downloads, last_call,
                 config, config_file, last_set, detected>>

\* /admin arrives: admin_command has no suspension before its reply.
AdminCommand(u) ==
    /\ LoopFree
    /\ last' = [Event("admin", "admin_command", u) EXCEPT
                   !.view = IF is_user_admin(u) THEN "admin_panel" ELSE "denied"]
    /\ UNCHANGED <<channel_username, users, downloads, task, last_call,
                 config, config_file, last_set, detected>>

\* A button is pressed: handle_callback from query.answer() to the gate's
\* suspension or the reply.  (A chat keeps the buttons of its earlier
\* messages, those of earlier runs of the bot included.)
HandleCallback(p, u) ==
    /\ Free(p)
    /\ LoopFree
    /\ \E data \in CallbackData :
        LET ev == Event("callback", "handle_callback", u) IN
        IF data # "check_subscription"
        THEN /\ last' = ev
             /\ UNCHANGED task
        ELSE IF GatePath(u) = "query"
        THEN /\ last' = [ev EXCEPT !.invoked = TRUE]
             /\ task' = [task EXCEPT ![p] =
                    [pc |-> "cb_query", user |-> u, handler |-> "callback",
                     text |-> <<>>]]
        ELSE /\ last' = [Passed(ev, GatePath(u)) EXCEPT !.view = "main"]
             /\ UNCHANGED task
    /\ UNCHANGED <<channel_username, users, downloads, last_call,
                 config, config_file, last_set, detected>>

\* handle_callback after get_chat_member returned.
CallbackQueryReturn(p) ==
    /\ task[p].pc = "cb_query"
    /\ LoopFree
    /\ \E status \in QueryOutcomes, fault \in HandlerFaults :
        LET u == task[p].user
            hits == GateFaultHits(users, u, status, fault)
            g == GateReturn(users, u, status, fault)
            ev == Answered(Event("callback", "handle_callback", u), status,
                           g.result)
        IN
        /\ fault = NoFault \/ hits
        /\ users' = g.users
        /\ last' = [ev EXCEPT !.view = IF g.result THEN "main" ELSE "not_found",
                              !.db_failed = hits]
    /\ task' = [task EXCEPT ![p] = IdleTask]
    /\ UNCHANGED <<channel_username, downloads, last_call,
                 config, config_file, last_set, detected>>

\* handle_message once the gate returned True: process_download up to its
\* status message, the admin commands, or the "send a URL" prompt.
Route(p, u, text, ev0) ==
    LET urls == extract_urls_from_text(text)
        ev == [ev0 EXCEPT !.text = text]
    IN
    IF urls # <<>>
    THEN /\ last' = [ev EXCEPT !.via = "process_download", !.view = "loading"]
         /\ task' = [task EXCEPT ![p] =
                [pc |-> "pd_status", user |-> u, handler |-> "message",
                 text |-> <<urls[1]>>]]
    ELSE /\ last' = IF is_user_admin(u)
                    THEN [ev EXCEPT !.via = "handle_admin_commands",
                                    !.view = "admin_commands"]
                    ELSE [ev EXCEPT !.view = "send_url"]
         /\ task' = [task EXCEPT ![p] = IdleTask]

\* A text message arrives: handle_message up to its first suspension.
HandleMessage(p, u) ==
    /\ Free(p)
    /\ LoopFree
    /\ \E text \in Texts :
        LET ev == Event("message", "handle_message", u) IN
        /\ IF GatePath(u) = "query"
           THEN /\ last' = [ev EXCEPT !.invoked = TRUE]
                /\ task' = [task EXCEPT ![p] =
                       [pc |-> "hm_query", user |-> u, handler |-> "message",
                        text |-> text]]
           ELSE Route(p, u, text, Passed(ev, GatePath(u)))
    /\ UNCHANGED <<channel_username, users, downloads, last_call,
                 config, config_file, last_set, detected>>

\* handle_message after get_chat_member returned: on False it calls
\* start_command, which runs up to its own get_chat_member.
MessageQueryReturn(p) ==
    /\ task[p].pc = "hm_query"
    /\ LoopFree
    /\ \E status \in QueryOutcomes, fault \in HandlerFaults :
        LET u == task[p].user
            hits == GateFaultHits(users, u, status, fault)
            g == GateReturn(users, u, status, fault)
            ev == [Answered(Event("message", "handle_message", u), status,
                            g.result) EXCEPT !.db_failed = hits]
        IN
        /\ fault = NoFault \/ hits
        /\ IF g.result
           THEN /\ users' = g.users
                /\ Route(p, u, task[p].text, ev)
           ELSE StartBody(p, u, "message", g.users, ev)
    /\ UNCHANGED <<channel_username, downloads, last_call,
                 config, config_file, last_set, detected>>

\* process_download: the status message is out, download_content starts.
FetchStart(p) ==
    /\ task[p].pc = "pd_status"
    /\ LoopFree
    /\ task' = [task EXCEPT ![p].pc = "fetching", ![p].text = <<>>]
    /\ last' = [Event("message", "download_content", task[p].user) EXCEPT
                   !.fetch = task[p].text[1]]
    /\ UNCHANGED <<channel_username, users, downloads, last_call,
                 config, config_file, last_set, detected>>

\* A bug: the reason is not shown, the generic message is.
FailureReplyGeneric(ok) == "error"

\* What the status message says after download_content returned success
\* False: the failure with result['error'], or, when that edit_text raised,
\* the generic message of the except clause.
FailureReply(ok) == IF ok THEN "failed" ELSE "error"

\* download_content returns its result.  A failure is reported and ends the
\* handler; on success "uploading" is shown, the file is opened and
\* send_document is called, any of which may raise.
FetchReturn(p) ==
    /\ task[p].pc = "fetching"
    /\ \E success \in BOOLEAN, ok \in BOOLEAN :
        LET ev == [Event("message", "process_download", task[p].user) EXCEPT
                      !.fetched = IF success THEN "success" ELSE "failure",
                      !.raised = ~ok]
        IN
        IF ~success
        THEN /\ last' = [ev EXCEPT !.view = FailureReply(ok)]
             /\ task' = [task EXCEPT ![p] = IdleTask]
        ELSE IF ok
        THEN /\ last' = [ev EXCEPT !.view = "document"]
             /\ task' = [task EXCEPT ![p].pc = "pd_send"]
        ELSE /\ last' = [ev EXCEPT !.view = "error"]
             /\ task' = [task EXCEPT ![p] = IdleTask]
    /\ UNCHANGED <<channel_username, users, downloads, last_call,
                 config, config_file, last_set, detected>>

\* process_download: send_document returned or raised.  Once the file is
\* delivered the statistics are updated and the status message is deleted;
\* an exception (of send_document, or of the deletion) is reported.
Delivered(p) ==
    /\ task[p].pc = "pd_send"
    /\ LoopFree
    /\ \E sent \in BOOLEAN, deleted \in BOOLEAN :
        LET u == task[p].user
            ev == [Event("message", "process_download", u) EXCEPT
                      !.raised = ~sent \/ ~deleted]
        IN
        IF sent
        THEN \E fault \in HandlerFaults :
             LET hits == FaultHits(users, u, DownloadFields, fault) IN
             /\ fault = NoFault \/ hits
             /\ users' = update_user_info(users, u, DownloadFields, fault)
             /\ last' = [ev EXCEPT !.view = IF deleted THEN "delivered"
                                            ELSE "delivered_error",
                                   !.db_failed = hits]
        ELSE /\ deleted   \* the deletion is not reached: one case stands for both
             /\ last' = [ev EXCEPT !.view = "error"]
             /\ UNCHANGED users
    /\ task' = [task EXCEPT ![p] = IdleTask]
    /\ UNCHANGED <<channel_username, downloads, last_call,
                 config, config_file, last_set, detected>>

Next ==
    \/ \E p \in Tasks, u \in UserIds : StartCommand(p, u)
    \/ \E p \in Tasks : StartQueryReturn(p)
    \/ \E u \in UserIds : AdminCommand(u)
    \/ \E p \in Tasks, u \in UserIds : HandleCallback(p, u)
    \/ \E p \in Tasks : CallbackQueryReturn(p)
    \/ \E p \in Tasks, u \in UserIds : HandleMessage(p, u)
    \/ \E p \in Tasks : MessageQueryReturn(p)
    \/ \E p \in Tasks : FetchStart(p)
    \/ \E p \in Tasks : FetchReturn(p)
    \/ \E p \in Tasks : Delivered(p)

Spec == Init /\ [][Next]_vars

----------------------------------------------------------------------------
(* update_user_info on its own: any sequence of calls, with any named fields *)

\* The columns the calls name, and the values they pass.
CallColumns == {"username", "total_downloads"}

CallValues == [username : {"ann", "bob"}, total_downloads : {1}]

\* One call of update_user_info(user_id, **kwargs), fault injected at a storage step.
UpsertCall(u, names, values, fault) ==
    LET kwargs == [c \in names |-> values[c]] IN
    /\ users' = update_user_info(users, u, kwargs, fault)
    /\ last_call' = [user_id |-> u, kwargs |-> kwargs,
                     faulted |-> fault # NoFault,
                     existed |-> HasRow(users, u),
                     failed |-> FaultHits(users, u, kwargs, fault),
                     fault |-> fault,
                     raised |-> UpdateRaises(users, u, kwargs, fault)]
    /\ UNCHANGED <<channel_username, downloads, task, last,
                 config, config_file, last_set, detected>>

UpsertNext ==
    \E u \in UserIds, names \in SUBSET CallColumns, values \in CallValues,
       fault \in DbFaults :
        UpsertCall(u, names, values, fault)

SpecUpsert == Init /\ [][UpsertNext]_vars

----------------------------------------------------------------------------
(* ConfigManager on its own: any sequence of set calls and restarts *)

\* ConfigManager.set(key, value), the rewrite going as `fault` says.
ConfigSet(key, value, fault) ==
    /\ config' = SetItem(config, key, value)
    /\ config_file' = save_config(config', config_file, fault)
    /\ last_set' = [op |-> "set", key |-> key, value |-> value, fault |-> fault,
                    raised |-> fault # NoFault /\ fault \notin SaveInsideTry]
    /\ UNCHANGED <<channel_username, users, downloads, task, last, last_call,
                   detected>>

\* The process starts again: ConfigManager() loads the file.
ConfigLoad ==
    /\ config' = load_config(config_file)
    /\ last_set' = [NoSet EXCEPT !.op = "load"]
    /\ UNCHANGED <<channel_username, users, downloads, task, last, last_call,
                   config_file, detected>>

ConfigNext ==
    \/ \E key \in ConfigKeys, value \in ConfigValues, fault \in SaveFaults :
           ConfigSet(key, value, fault)
    \/ ConfigLoad

SpecConfig == Init /\ [][ConfigNext]_vars

----------------------------------------------------------------------------
(* detect_platform on its own *)

Detect(url) ==
    /\ detected' = [url |-> url, platform |-> detect_platform(url)]
    /\ UNCHANGED <<channel_username, users, downloads, task, last, last_call,
                   config, config_file, last_set>>

DetectNext == \E url \in Urls : Detect(url)

SpecDetect == Init /\ [][DetectNext]_vars

----------------------------------------------------------------------------
(* The claims *)

QueryPcs == {"sc_query", "cb_query", "hm_query"}

\* The steps in which a handler calls check_subscription first.
GateCallers == {"start_command", "handle_callback", "handle_message"}

\* total_downloads of user u, 0 while u has no row.
TotalDownloads(tbl, u) ==
    IF HasRow(tbl, u) THEN RowOf(tbl, u).total_downloads ELSE 0

\* C1: a check_subscription call for a user of the admin allow-list returns
\* True and get_chat_member is not invoked for it, with or without a channel:
\* no step for an administrator invokes the query or completes a check on
\* another path than the bypass, /start for an administrator completes its
\* check at once, and no coroutine of an administrator waits for the query.
AdminBypass ==
    /\ last.user \in admin_ids =>
        /\ ~last.invoked
        /\ last.path \in {"none", "admin"}
        /\ last.path = "admin" => last.result
        /\ last.handler = "start" => last.path = "admin"
    /\ \A p \in Tasks : task[p].pc \in QueryPcs => task[p].user \notin admin_ids

AdminBypassWitness ==
    /\ last.user \in admin_ids
    /\ last.path = "admin"
    /\ last.result
    /\ channel_username # <<>>

\* C2: for a non-admin user with a channel configured the check returns True
\* exactly when get_chat_member answers member, administrator or creator; any
\* other status and a query that raises give False, and the caller goes on
\* with its BLOCKED branch (the exception does not leave the check).
MembershipMapping ==
    last.path = "query" =>
        /\ last.user \notin admin_ids
        /\ channel_username # <<>>
        /\ last.result <=> last.status \in {"member", "administrator", "creator"}
        /\ ~last.result =>
            \/ last.view \in {"prompt", "not_found"}
            \/ last.handler = "message" /\ last.via = "start_command" /\ last.invoked

MembershipMappingWitness ==
    /\ last.path = "query"
    /\ last.status = "error"
    /\ ~last.result
    /\ last.view = "prompt"

\* C3 (as claimed): after a check on the query path, whether the query
\* answered or raised, the user's row carries the decision in is_subscribed
\* and the time of the check in subscription_checked_at (storage working).
CacheMatchesDecision ==
    (last.path = "query" /\ ~last.db_failed) =>
        /\ HasRow(users, last.user)
        /\ RowOf(users, last.user).is_subscribed = last.result
        /\ RowOf(users, last.user).subscription_checked_at = Now

\* C4: with no channel configured every check returns True, for administrators
\* and others alike, and get_chat_member is never invoked.
NoChannelPassthrough ==
    channel_username = <<>> =>
        /\ ~last.invoked
        /\ last.path \in {"none", "admin", "open"}
        /\ last.path # "none" => last.result
        /\ (last.via \in GateCallers /\ last.handler # "callback") =>
               last.path # "none"
        /\ \A p \in Tasks : task[p].pc \notin QueryPcs

NoChannelPassthroughWitness ==
    /\ channel_username = <<>>
    /\ last.user \notin admin_ids
    /\ last.path = "open"
    /\ last.result

\* C5 (as claimed): every successful download raises the user's
\* total_downloads by exactly one, so N of them raise it by N (storage working).
CounterAddsOne ==
    [][(last'.view = "delivered" /\ ~last'.db_failed) =>
          TotalDownloads(users', last'.user)
              = TotalDownloads(users, last'.user) + 1]_vars

\* C6 (as claimed): the reply to a text message the gate BLOCKED is the
\* subscription prompt and nothing else: no main interface, no fetch, no
\* admin dispatch.  (handle_message runs start_command exactly when its check
\* returned False.)
BlockedMessageGetsPrompt ==
    (last.handler = "message" /\ last.via = "start_command") =>
        /\ last.view \in {"none", "prompt"}
        /\ last.fetch = "none"

\* C7 (as claimed): a row exists for every user a text message of whom has
\* been handled, the upsert coming before the gate (storage working).
RowExistsForSender ==
    (last.handler = "message" /\ ~last.db_failed) => HasRow(users, last.user)

\* C8: /admin from a sender outside the allow-list is answered with the
\* permission-denied message, /admin from a sender of the allow-list with the
\* admin panel, and the panel is never shown to anyone outside the allow-list.
AdminGate ==
    /\ last.view = "admin_panel" => last.user \in admin_ids
    /\ last.handler = "admin" =>
           last.view = IF last.user \in admin_ids THEN "admin_panel" ELSE "denied"

AdminGateWitness ==
    /\ last.handler = "admin"
    /\ last.user \notin admin_ids
    /\ last.view = "denied"

\* The row an INSERT of update_user_info creates for user u.
FreshRow(u) == NewRow(u, u \in admin_ids)

\* C9: update_user_info never leaves two rows for one user id and never
\* removes a row; a call whose storage steps all succeed leaves exactly one
\* row for its user id, seen before or not, with the named fields set as
\* given, every other field as it was (as inserted, for an unseen id) and the
\* rows of the other users untouched; a call fails only by a storage fault.
UpsertStep ==
    LET c == last_call'
        u == c.user_id
        old == IF HasRow(users, u) THEN RowOf(users, u) ELSE FreshRow(u)
        new == RowOf(users', u)
    IN
    /\ \A v \in UserIds : Cardinality(RowsOf(users', v)) <= 1
    /\ \A v \in UserIds : HasRow(users, v) => HasRow(users', v)
    /\ c.failed => c.faulted
    /\ ~c.failed =>
        /\ Cardinality(RowsOf(users', u)) = 1
        /\ \A col \in Columns :
               new[col] = IF col \in DOMAIN c.kwargs THEN c.kwargs[col]
                          ELSE old[col]
        /\ \A v \in UserIds \ {u} : RowsOf(users', v) = RowsOf(users, v)

UpsertIdempotent == [][UpsertStep]_vars

\* A second successful call for a user id, this one naming no field.
UpsertIdempotentWitness ==
    /\ last_call.existed
    /\ ~last_call.failed
    /\ DOMAIN last_call.kwargs = {}
    /\ Cardinality(RowsOf(users, last_call.user_id)) = 1

\* The rows of table downloads for user u.
DownloadsOf(tbl, u) == SelectSeq(tbl, LAMBDA r : r.user_id = u)

\* C10 (as claimed): every download attempt appends exactly one row to
\* table downloads for its user.
AttemptIsLogged ==
    [][last'.fetch # "none" =>
          Len(DownloadsOf(downloads', last'.user))
              = Len(DownloadsOf(downloads, last'.user)) + 1]_vars

\* The first URL token of a text that has one.
FirstUrlOf(text) ==
    text[CHOOSE i \in 1..Len(text) :
            IsUrl(text[i]) /\ \A j \in 1..(i - 1) : ~IsUrl(text[j])]

\* The coroutines to which this step hands a URL for download.
Dispatched == {p \in Tasks : task[p].pc # "pd_status" /\ task'[p].pc = "pd_status"}

\* The coroutines whose download_content call this step starts.
Started == {p \in Tasks : task[p].pc # "fetching" /\ task'[p].pc = "fetching"}

\* C11: the step that classifies the text of an AUTHORIZED message with a URL
\* dispatches the first URL of the text to process_download, once, and
\* nothing else (no admin dispatch, for an admin sender either); for a text
\* without URL from a non-admin it replies "send a URL" and dispatches
\* nothing.  download_content is invoked for a dispatched URL only, once per
\* dispatch: a coroutine that has fetched does not fetch again.
UrlRoutingStep ==
    /\ last'.text # <<>> =>
        /\ last'.result
        /\ last'.fetch = "none"
        /\ IF \E i \in 1..Len(last'.text) : IsUrl(last'.text[i])
           THEN /\ Cardinality(Dispatched) = 1
                /\ \A p \in Dispatched :
                       /\ task'[p].text = <<FirstUrlOf(last'.text)>>
                       /\ task'[p].user = last'.user
                /\ last'.via = "process_download"
                /\ last'.view = "loading"
           ELSE /\ Dispatched = {}
                /\ last'.user \notin admin_ids => last'.view = "send_url"
    /\ last'.text = <<>> => Dispatched = {}
    /\ Cardinality(Started) = IF last'.fetch # "none" THEN 1 ELSE 0
    /\ \A p \in Started :
           /\ task[p].pc = "pd_status"
           /\ task[p].text = <<last'.fetch>>
           /\ task[p].user = last'.user
    /\ \A p \in Tasks :
           /\ task[p].pc = "pd_status" => task'[p].pc \in {"pd_status", "fetching"}
           /\ task[p].pc = "pd_send" => task'[p].pc \in {"pd_send", "idle"}

CounterNeverDropsStep ==
    \A u \in UserIds : TotalDownloads(users', u) >= TotalDownloads(users, u)

CounterNeverDrops == [][CounterNeverDropsStep]_vars

\* A user with a download counted sends /start and is checked again.
CounterNeverDropsWitness ==
    /\ last.handler = "start"
    /\ last.path = "query"
    /\ ~last.db_failed
    /\ TotalDownloads(users, last.user) = 1

\* C13 (as claimed): a re-check that the gate AUTHORIZED ends at the main
\* interface; after a re-check that the gate BLOCKED the main interface is not
\* shown and the message still offers the re-check button.
RecheckKeepsPrompt ==
    (last.handler = "callback" /\ last.path # "none") =>
        IF last.result
        THEN last.view = "main"
        ELSE /\ last.view # "main"
             /\ "check_subscription" \in InlineKeyboard(last.view)

\* C14: when download_content returns a failure, the status message is
\* edited to the failure text with the reason (if that edit raises, the except
\* clause shows the generic message instead), the handler ends without
\* invoking download_content again, no other download is dispatched or started
\* by the step, and no row of the user table changes, total_downloads included.
FetchFailureStep ==
    last'.fetched = "failure" =>
        /\ ~last'.raised => last'.view = "failed"
        /\ last'.raised => last'.view = "error"
        /\ Started = {}
        /\ Dispatched = {}
        /\ \A p \in Tasks : task[p].pc = "fetching" => task'[p] = IdleTask
        /\ TotalDownloads(users', last'.user) = TotalDownloads(users, last'.user)
        /\ users' = users

FetchFailure == [][FetchFailureStep]_vars

\* A failed download of a user who has a download counted already.
FetchFailureWitness ==
    /\ last.fetched = "failure"
    /\ last.view = "failed"
    /\ TotalDownloads(users, last.user) = 1
    /\ \A p \in Tasks : task[p].user # last.user

\* C15: a call of update_user_info in which a storage step fails (connect,
\* select, insert, update, or the commit) returns to its caller without
\* raising and leaves the user table exactly as it was: in particular no row
\* stays inserted when the UPDATE after the INSERT fails.  The step fails
\* whenever it runs (connect and select in every call, the INSERT for an
\* unseen id, the UPDATE when a field is named).
StorageFailureStep ==
    LET c == last_call' IN
    /\ ~c.raised
    /\ c.failed => users' = users
    /\ c.fault \in {"connect", "select", "commit"} => c.failed
    /\ (c.fault = "insert" /\ ~c.existed) => c.failed
    /\ (c.fault = "update" /\ DOMAIN c.kwargs # {}) => c.failed

StorageFailureContained == [][StorageFailureStep]_vars

\* The UPDATE failed in a call for an unseen id: the INSERT is not kept.
StorageFailureContainedWitness ==
    /\ last_call.fault = "update"
    /\ last_call.failed
    /\ ~last_call.existed
    /\ ~HasRow(users, last_call.user_id)
    /\ users # {}

\* C16: set(key, value) returns without raising, whether the rewrite went
\* through or not; after it get(key) gives the new value and every other
\* setting is as before; when the rewrite went through, the file holds
\* exactly the settings in memory (all of them, also those an earlier failed
\* rewrite had missed); when it failed, the file holds what it held (open
\* raised) or does not parse (the write raised).
ConfigSetStep ==
    LET c == last_set' IN
    c.op = "set" =>
        /\ ~c.raised
        /\ get(config', c.key, Str("missing")) = c.value
        /\ DOMAIN config' = DOMAIN config \cup {c.key}
        /\ \A k \in DOMAIN config \ {c.key} : config'[k] = config[k]
        /\ c.fault = NoFault =>
               /\ config_file'.state = "json"
               /\ Loaded(config_file') = config'
        /\ c.fault # NoFault =>
               \/ config_file' = config_file
               \/ config_file'.state = "broken"

ConfigSetSwallows == [][ConfigSetStep]_vars

\* A set whose rewrite failed: memory has the new value, the file the old one.
ConfigSetSwallowsWitness ==
    /\ last_set.op = "set"
    /\ last_set.fault = "open"
    /\ config[last_set.key] = last_set.value
    /\ config_file.state = "json"
    /\ last_set.key \in DOMAIN config_file.content
    /\ Loaded(config_file)[last_set.key] # last_set.value

\* The host of a URL that parses: its network location without the user
\* information (up to the last "@") and without the port (from ":" on).
HostOf(url) ==
    LET nl == netloc(url)
        ats == {i \in 1..Len(nl) : nl[i] = "@"}
        from == IF ats = {} THEN 1
                ELSE (CHOOSE i \in ats : \A j \in ats : j <= i) + 1
        rest == SubSeq(nl, from, Len(nl))
        colons == {i \in 1..Len(rest) : rest[i] = ":"}
    IN
    IF colons = {} THEN rest
    ELSE SubSeq(rest, 1, (CHOOSE i \in colons : \A j \in colons : i <= j) - 1)

\* The label of the first entry of supported_domains whose domain is a
\* substring of str, "Unknown" when there is none.
LabelFor(str) ==
    LET hits == {i \in 1..Len(supported_domains) :
                    Contains(str, supported_domains[i].domain)}
    IN
    IF hits = {} THEN "Unknown"
    ELSE supported_domains[CHOOSE i \in hits : \A j \in hits : i <= j].platform

\* C17 (as claimed): detect_platform gives the label of the first entry of
\* the table whose domain is a substring of the lowercased host of the URL,
\* and "Unknown" when no entry matches or the URL does not parse.
DetectByHost ==
    detected.url # <<>> =>
        detected.platform =
            IF UrlParseRaises(detected.url) THEN "Unknown"
            ELSE LabelFor(lower(HostOf(detected.url)))

\* Does the table have user u as subscribed?
CachedSubscribed(tbl, u) == HasRow(tbl, u) /\ RowOf(tbl, u).is_subscribed

\* C18: with a channel configured, a check for a user outside the allow-list
\* completes on the query path only, each completion consuming a
\* get_chat_member call that a coroutine of that user was waiting for, and
\* its result is decided by that answer alone: whatever is_subscribed the
\* table holds, a member status gives True and anything else False, so a
\* user stored as subscribed who has left is BLOCKED.  A handler that checks
\* such a user invokes the query before anything else.
GateIgnoresCacheStep ==
    LET u == last'.user IN
    (channel_username # <<>> /\ u \in UserIds \ admin_ids) =>
        /\ last'.path \in {"none", "query"}
        /\ last'.path = "query" =>
            /\ \E p \in Tasks : /\ task[p].pc \in QueryPcs
                                 /\ task[p].user = u
                                 /\ (task'[p].pc \notin QueryPcs \/ last'.invoked)
            /\ last'.result
                  <=> last'.status \in {"member", "administrator", "creator"}
            /\ (CachedSubscribed(users, u) /\ last'.status \in {"left", "kicked"})
                  => ~last'.result
        /\ (last'.handler \in {"start", "message"} /\ last'.via \in GateCallers)
              => last'.invoked \/ last'.path = "query"
        /\ \A p \in Tasks :
               (task[p].pc \notin QueryPcs /\ task'[p].pc \in QueryPcs
                    /\ task'[p].user = u) => last'.invoked

GateIgnoresCache == [][GateIgnoresCacheStep]_vars

\* A user the table still has as subscribed is BLOCKED: the query raised, so
\* the row was not even refreshed.
GateIgnoresCacheWitness ==
    /\ last.path = "query"
    /\ last.status = "error"
    /\ ~last.result
    /\ last.user \notin admin_ids
    /\ CachedSubscribed(users, last.user)
    /\ last.view \in {"prompt", "not_found"}

\* The coroutines inside download_content.
Fetching == {p \in Tasks : task[p].pc = "fetching"}

\* C19: whatever messages are in flight, at most one download_content call
\* is executing at any moment.
NoParallelDownloads == Cardinality(Fetching) <= 1

\* One download executing while the download of another message, of the same
\* user or not, waits for its turn.
NoParallelDownloadsWitness ==
    /\ Cardinality(Fetching) = 1
    /\ \E p \in Tasks : task[p].pc = "pd_status"

\* C20: a URL is handed to process_download only by the step of
\* handle_message in which the check for the sender returned True: on the
\* bypass for an administrator, with no channel configured, or on a member
\* status answered by get_chat_member; download_content is invoked only by
\* the coroutine so dispatched, for the same user.  So every fetch follows an
\* AUTHORIZED check within the handling of its message, and a user who is no
\* administrator and no member, with a channel configured, causes none.
FetchAuthorizedStep ==
    /\ \A p \in Dispatched :
           /\ last'.handler = "message"
           /\ last'.user = task'[p].user
           /\ task'[p].user \in UserIds
           /\ last'.result
           /\ \/ last'.path = "admin" /\ last'.user \in admin_ids
              \/ last'.path = "open" /\ channel_username = <<>>
              \/ /\ last'.path = "query"
                 /\ last'.status \in {"member", "administrator", "creator"}
                 /\ task[p].pc = "hm_query"
                 /\ task[p].user = task'[p].user
    /\ \A p \in Started :
           /\ task[p].pc = "pd_status"
           /\ task'[p].user = task[p].user
           /\ last'.user = task[p].user
    /\ last'.fetch # "none" => Started # {}
    /\ \A p \in Tasks :
           (task[p].pc = "pd_status" /\ task'[p].pc = "pd_status")
               => task'[p] = task[p]

FetchAuthorized == [][FetchAuthorizedStep]_vars

\* A fetch for a user outside the allow-list, with a channel configured.
FetchAuthorizedWitness ==
    /\ last.fetch # "none"
    /\ last.user \notin admin_ids
    /\ channel_username # <<>>
    /\ \E p \in Fetching : task[p].user = last.user

====
